---- MODULE Spec2Model ----
(***************************************************************************)
(* Two simulations of src/A-bouncing-ball.py:                              *)
(*   - a ball bouncing inside a rotating hexagon (lines 1-158);            *)
(*   - an N-body solar system (lines 161-290).                             *)
(*                                                                         *)
(* Python floats are modelled as decimal floating-point numbers <<m, e>>   *)
(* of value m * 10^e with a four-digit significand (1000 <= |m| <= 9999,   *)
(* zero is <<0, 0>>).  Every arithmetic operation rounds its exact result  *)
(* to four digits, as IEEE-754 rounds to 53 bits, so rounding error,       *)
(* cancellation and non-associativity are present in the model.            *)
(***************************************************************************)
EXTENDS Integers, Sequences, FiniteSets, TLC

VARIABLES
    hexagon_angle,   \* rotation of the hexagon (float, radians)
    ball_position,   \* <<x, y>> of the ball (floats)
    ball_velocity,   \* <<vx, vy>> of the ball (floats)
    vertices,        \* hexagon vertices handed to the resolver
    in_pos,          \* ball position at entry of the last resolver call(s)
    in_vel,          \* ball velocity at entry of the last resolver call(s)
    returns,         \* values returned by the resolver calls of the last tick
    examined,        \* edges examined by the last resolver call
    bodies,          \* solar system: sequence of Body records
    prev_bodies,     \* solar system: bodies at entry of the last call / frame
    paused,          \* solar system: pause flag
    speed_factor,    \* solar system: speed multiplier
    events,          \* events delivered to the last frame
    running,         \* main-loop flag
    frames,          \* frames / calls executed so far
    pc               \* position of the program

vars == <<hexagon_angle, ball_position, ball_velocity, vertices, in_pos, in_vel,
          returns, examined, bodies, prev_bodies, paused, speed_factor, events,
          running, frames, pc>>

---------------------------------------------------------------------------
(* Floating-point arithmetic *)

\* Binding of one, two or three values to names (the body is the LAMBDA).
With(v, F(_)) == F(v)

With2(u, v, F(_, _)) == F(u, v)

With3(u, v, w, F(_, _, _)) == F(u, v, w)

Abs(n) == IF n < 0 THEN -n ELSE n

Sgn(n) == IF n < 0 THEN -1 ELSE IF n > 0 THEN 1 ELSE 0

Pow10(k) ==
    CASE k = 0 -> 1 [] k = 1 -> 10 [] k = 2 -> 100 [] k = 3 -> 1000
      [] k = 4 -> 10000 [] k = 5 -> 100000 [] k = 6 -> 1000000
      [] k = 7 -> 10000000 [] k = 8 -> 100000000 [] k = 9 -> 1000000000

NumDigits(a) ==
    IF a < 10 THEN 1 ELSE IF a < 100 THEN 2 ELSE IF a < 1000 THEN 3
    ELSE IF a < 10000 THEN 4 ELSE IF a < 100000 THEN 5
    ELSE IF a < 1000000 THEN 6 ELSE IF a < 10000000 THEN 7
    ELSE IF a < 100000000 THEN 8 ELSE IF a < 1000000000 THEN 9 ELSE 10

\* The float nearest to m * 10^e (round half away from zero).
Norm(m, e) ==
    IF m = 0 THEN <<0, 0>>
    ELSE With(NumDigits(Abs(m)), LAMBDA d :
         IF d > 4
         THEN With((Abs(m) + Pow10(d - 4) \div 2) \div Pow10(d - 4), LAMBDA q :
              IF q = 10000 THEN <<Sgn(m) * 1000, e + d - 3>>
                           ELSE <<Sgn(m) * q, e + d - 4>>)
         ELSE <<m * Pow10(4 - d), e - (4 - d)>>)

\* An integer literal, and a decimal literal n * 10^-k.
Flt(n) == Norm(n, 0)

Dec(n, k) == Norm(n, -k)

Zero == <<0, 0>>

One == <<1000, -3>>

FNeg(a) == <<-a[1], a[2]>>

\* a + b for a[2] >= b[2], both non-zero.
AddAligned(hi, lo) ==
    IF hi[2] - lo[2] > 5 THEN hi
    ELSE Norm(hi[1] * Pow10(hi[2] - lo[2]) + lo[1], lo[2])

FAdd(a, b) ==
    IF a[1] = 0 THEN b
    ELSE IF b[1] = 0 THEN a
    ELSE IF a[2] >= b[2] THEN AddAligned(a, b) ELSE AddAligned(b, a)

FSub(a, b) == FAdd(a, FNeg(b))

FMul(a, b) == Norm(a[1] * b[1], a[2] + b[2])

FDiv(a, b) ==
    Norm(Sgn(a[1]) * Sgn(b[1]) * ((Abs(a[1]) * 100000) \div Abs(b[1])),
         a[2] - b[2] - 5)

FLt(a, b) == FSub(a, b)[1] < 0

FLe(a, b) == FSub(a, b)[1] <= 0

FAbs(a) == <<Abs(a[1]), a[2]>>

FMax(a, b) == IF FLt(a, b) THEN b ELSE a

FMin(a, b) == IF FLt(b, a) THEN b ELSE a

RECURSIVE IsqrtB(_, _, _)
\* Largest r with r*r <= n, searched in lo..hi-1 (lo*lo <= n < hi*hi).
IsqrtB(n, lo, hi) ==
    IF hi - lo <= 1 THEN lo
    ELSE IF ((lo + hi) \div 2) * ((lo + hi) \div 2) <= n
         THEN IsqrtB(n, (lo + hi) \div 2, hi)
         ELSE IsqrtB(n, lo, (lo + hi) \div 2)

Isqrt(n) == IsqrtB(n, 0, 31623)

FSqrt(a) ==
    IF a[1] = 0 THEN Zero
    ELSE IF a[2] % 2 = 0
         THEN Norm(Isqrt(a[1] * 10000), (a[2] - 4) \div 2)
         ELSE Norm(Isqrt(a[1] * 100000), (a[2] - 5) \div 2)

\* math.hypot
Hypot(x, y) == FSqrt(FAdd(FMul(x, x), FMul(y, y)))

\* Largest integer <= a (for |a| < 10^9).
FFloor(a) ==
    IF a[2] >= 0 THEN a[1] * Pow10(a[2])
    ELSE IF a[2] < -9 THEN (IF a[1] < 0 THEN -1 ELSE 0)
    ELSE a[1] \div Pow10(-a[2])

Pi == <<3142, -3>>

TwoPi == <<6283, -3>>

HalfPi == <<1571, -3>>

\* x >= 0 reduced to [-pi, pi].
Reduce(x) ==
    With(FSub(x, FMul(Flt(FFloor(FDiv(x, TwoPi))), TwoPi)), LAMBDA r0 :
         IF FLt(Pi, r0) THEN FSub(r0, TwoPi) ELSE r0)

\* The Taylor series of cos and sin from the square y2 of the argument.
CosSeries(y2) ==
    FSub(One, FMul(FDiv(y2, Flt(2)),
    FSub(One, FMul(FDiv(y2, Flt(12)),
    FSub(One, FMul(FDiv(y2, Flt(30)),
    FSub(One, FDiv(y2, Flt(56)))))))))

SinSeries(y2) ==
    FSub(One, FMul(FDiv(y2, Flt(6)),
    FSub(One, FMul(FDiv(y2, Flt(20)),
    FSub(One, FMul(FDiv(y2, Flt(42)),
    FSub(One, FDiv(y2, Flt(72)))))))))

\* The series argument: |r| folded into [0, pi/2].
Fold(r) == IF FLt(HalfPi, FAbs(r)) THEN FSub(Pi, FAbs(r)) ELSE FAbs(r)

\* math.cos for x >= 0.
Cos(x) ==
    With(Reduce(x), LAMBDA r :
    With(Fold(r), LAMBDA y :
         IF FLt(HalfPi, FAbs(r)) THEN FNeg(CosSeries(FMul(y, y)))
                                 ELSE CosSeries(FMul(y, y))))

\* math.sin for x >= 0.
Sin(x) ==
    With(Reduce(x), LAMBDA r :
    With(Fold(r), LAMBDA y :
         IF r[1] < 0 THEN FNeg(FMul(y, SinSeries(FMul(y, y))))
                     ELSE FMul(y, SinSeries(FMul(y, y)))))

---------------------------------------------------------------------------
(* Bouncing ball in a spinning hexagon: simulation parameters *)

WIDTH == 800

HEIGHT == 600

hexagon_center == <<Flt(WIDTH \div 2), Flt(HEIGHT \div 2)>>

hexagon_radius == 250

hexagon_angular_speed == <<5000, -4>>

ball_radius == 15

gravity == 500

restitution == <<9000, -4>>

friction == <<2000, -4>>

\* Vertex i (0..5) of the hexagon: the angle theta and the point.
HexVertex(center, radius, theta) ==
    <<FAdd(center[1], FMul(radius, Cos(theta))),
      FAdd(center[2], FMul(radius, Sin(theta)))>>

\* The vertices of a regular hexagon rotated by angle (vertex i of the
\* code is element i + 1 of the sequence).
get_hexagon_vertices(center, radius, angle) ==
    [k \in 1..6 |->
        HexVertex(center, radius,
                  FAdd(angle, FMul(Flt(k - 1), FDiv(FMul(Flt(2), Pi), Flt(6)))))]

Dot(u, v) == FAdd(FMul(u[1], v[1]), FMul(u[2], v[2]))

VSub(u, v) == <<FSub(u[1], v[1]), FSub(u[2], v[2])>>

\* The candidate normal (edge_unit rotated by 90 degrees), flipped when it
\* points away from the centre as seen from the edge's midpoint.
InwardNormal(p1, p2, edge_unit, hex_center) ==
    IF FLt(Dot(<<FNeg(edge_unit[2]), edge_unit[1]>>,
               <<FSub(hex_center[1], FDiv(FAdd(p1[1], p2[1]), Flt(2))),
                 FSub(hex_center[2], FDiv(FAdd(p1[2], p2[2]), Flt(2)))>>), Zero)
    THEN <<edge_unit[2], FNeg(edge_unit[1])>>
    ELSE <<FNeg(edge_unit[2]), edge_unit[1]>>

\* Edge i of the polygon: end points, length, unit vector and inward normal.
EdgeOf(verts, hex_center, i) ==
    With2(verts[i], verts[(i % Len(verts)) + 1], LAMBDA p1, p2 :
    With(VSub(p2, p1), LAMBDA edge_vec :
    With(Hypot(edge_vec[1], edge_vec[2]), LAMBDA edge_length :
         IF edge_length = Zero
         THEN [degenerate |-> TRUE, p1 |-> p1, p2 |-> p2, edge_length |-> Zero,
               edge_unit |-> <<Zero, Zero>>, normal |-> <<Zero, Zero>>]
         ELSE With(<<FDiv(edge_vec[1], edge_length), FDiv(edge_vec[2], edge_length)>>,
              LAMBDA edge_unit :
                  [degenerate |-> FALSE, p1 |-> p1, p2 |-> p2,
                   edge_length |-> edge_length, edge_unit |-> edge_unit,
                   normal |-> InwardNormal(p1, p2, edge_unit, hex_center)]))))

\* The closest point of the segment to the ball's centre, and the distance.
Closest(ball_pos, edge) ==
    With(FMax(Zero, FMin(edge.edge_length, Dot(VSub(ball_pos, edge.p1), edge.edge_unit))),
    LAMBDA t_clamped :
    With(<<FAdd(edge.p1[1], FMul(edge.edge_unit[1], t_clamped)),
           FAdd(edge.p1[2], FMul(edge.edge_unit[2], t_clamped))>>,
    LAMBDA closest_point :
    With(VSub(ball_pos, closest_point), LAMBDA dist_vec :
         [closest_point |-> closest_point, dist_vec |-> dist_vec,
          dist |-> Hypot(dist_vec[1], dist_vec[2])])))

\* The ball overlaps the wall.
Overlaps(dist) == FLt(dist, Flt(ball_radius))

CollisionNormal(dist_vec, dist, normal) ==
    IF dist # Zero THEN <<FDiv(dist_vec[1], dist), FDiv(dist_vec[2], dist)>>
                   ELSE normal

\* Velocity of the wall at the contact point (rotation about hex_center).
WallVel(closest_point, hex_center, ang_speed) ==
    <<FMul(FNeg(ang_speed), FSub(closest_point[2], hex_center[2])),
      FMul(ang_speed, FSub(closest_point[1], hex_center[1]))>>

RelVel(ball_vel, wall_vel) == VSub(ball_vel, wall_vel)

\* Mutant of MovingInward: respond to every overlap.
MovingInwardAlways(rel_vel_normal) == TRUE

\* Only respond if the ball is moving into the wall.
MovingInward(rel_vel_normal) == FLt(rel_vel_normal, Zero)

\* Mutant of Bounce: the normal part is scaled but not reflected.
BounceNoReflect(rel_vel, rel_vel_normal, n, wall_vel, rest, fric) ==
    With(<<FMul(rel_vel_normal, n[1]), FMul(rel_vel_normal, n[2])>>, LAMBDA v_normal :
    With(VSub(rel_vel, v_normal), LAMBDA v_tangent :
         <<FAdd(FAdd(FMul(rest, v_normal[1]),
                     FMul(FSub(One, fric), v_tangent[1])), wall_vel[1]),
           FAdd(FAdd(FMul(rest, v_normal[2]),
                     FMul(FSub(One, fric), v_tangent[2])), wall_vel[2])>>))

\* The new ball velocity: v_normal reflected with restitution (new_v_normal),
\* v_tangent damped with friction (new_v_tangent), their sum (new_rel_vel)
\* plus the wall's velocity.
Bounce(rel_vel, rel_vel_normal, n, wall_vel, rest, fric) ==
    With(<<FMul(rel_vel_normal, n[1]), FMul(rel_vel_normal, n[2])>>, LAMBDA v_normal :
    With(VSub(rel_vel, v_normal), LAMBDA v_tangent :
         <<FAdd(FAdd(FMul(FNeg(rest), v_normal[1]),
                     FMul(FSub(One, fric), v_tangent[1])), wall_vel[1]),
           FAdd(FAdd(FMul(FNeg(rest), v_normal[2]),
                     FMul(FSub(One, fric), v_tangent[2])), wall_vel[2])>>))

\* Mutant of PushOut: the ball is moved against the collision normal.
PushOutInward(ball_pos, n, penetration) ==
    <<FSub(ball_pos[1], FMul(n[1], penetration)),
      FSub(ball_pos[2], FMul(n[2], penetration))>>

\* The ball pushed out of the wall along the collision normal.
PushOut(ball_pos, n, penetration) ==
    <<FAdd(ball_pos[1], FMul(n[1], penetration)),
      FAdd(ball_pos[2], FMul(n[2], penetration))>>

\* Everything the resolver computes for edge i from the ball's state.
Contact(ball_pos, ball_vel, verts, hex_center, ang_speed, i) ==
    With(EdgeOf(verts, hex_center, i), LAMBDA edge :
    With(Closest(ball_pos, edge), LAMBDA c :
    With3(CollisionNormal(c.dist_vec, c.dist, edge.normal),
          WallVel(c.closest_point, hex_center, ang_speed),
          RelVel(ball_vel, WallVel(c.closest_point, hex_center, ang_speed)),
    LAMBDA n, wall_vel, rel_vel :
         [overlap |-> ~edge.degenerate /\ Overlaps(c.dist),
          dist |-> c.dist, closest_point |-> c.closest_point, n |-> n,
          wall_vel |-> wall_vel, rel_vel |-> rel_vel,
          rel_vel_normal |-> Dot(rel_vel, n)])))

\* Mutant of BreakAfterCollision: the edge loop goes on after a response.
NoBreakAfterCollision == FALSE

\* "Process one collision per check": the break that ends the edge loop.
BreakAfterCollision == TRUE

\* The ball after the response to contact k.
Respond(st, k, rest, fric) ==
    [pos |-> PushOut(st.pos, k.n, FSub(Flt(ball_radius), k.dist)),
     vel |-> Bounce(k.rel_vel, k.rel_vel_normal, k.n, k.wall_vel, rest, fric),
     collided |-> TRUE]

RECURSIVE EdgeLoop(_, _, _, _, _, _, _, _)
\* The for loop over the edges from edge i on; st is the ball's state and
\* the collided flag so far, seen the edges examined so far.
EdgeLoop(i, st, verts, hex_center, ang_speed, rest, fric, seen) ==
    IF i > Len(verts)
    THEN [pos |-> st.pos, vel |-> st.vel, collided |-> st.collided, examined |-> seen]
    ELSE With(Contact(st.pos, st.vel, verts, hex_center, ang_speed, i), LAMBDA k :
         IF k.overlap /\ MovingInward(k.rel_vel_normal)
         THEN With(Respond(st, k, rest, fric), LAMBDA hit :
              IF BreakAfterCollision
              THEN [pos |-> hit.pos, vel |-> hit.vel, collided |-> TRUE,
                    examined |-> Append(seen, i)]
              ELSE EdgeLoop(i + 1, hit, verts, hex_center, ang_speed,
                            rest, fric, Append(seen, i)))
         ELSE EdgeLoop(i + 1, st, verts, hex_center, ang_speed, rest, fric,
                       Append(seen, i)))

\* Returns the ball's position and velocity after the call, the value
\* returned, and the edges the call examined.
check_collision_and_resolve(ball_pos, ball_vel, verts, hex_center, ang_speed, rest, fric) ==
    EdgeLoop(1, [pos |-> ball_pos, vel |-> ball_vel, collided |-> FALSE],
             verts, hex_center, ang_speed, rest, fric, <<>>)

---------------------------------------------------------------------------
(* The resolver as a function: one call from each input state *)

\* Rotations of the hexagon at the call.
ResolveAngles == {Zero, <<5000, -4>>}

\* The point at fraction s of edge e, moved d pixels along the inward normal.
Beside(e, s, d) ==
    <<FAdd(FAdd(e.p1[1], FMul(s, FSub(e.p2[1], e.p1[1]))), FMul(d, e.normal[1])),
      FAdd(FAdd(e.p1[2], FMul(s, FSub(e.p2[2], e.p1[2]))), FMul(d, e.normal[2]))>>

NearEdge(verts, i, s, d) == Beside(EdgeOf(verts, hexagon_center, i), s, d)

\* The point at fraction f of the way from vertex v to the centre.
NearCorner(v, f) ==
    <<FAdd(v[1], FMul(f, FSub(hexagon_center[1], v[1]))),
      FAdd(v[2], FMul(f, FSub(hexagon_center[2], v[2])))>>

\* Ball positions at the call: beside every wall (overlapping it or not, on
\* either side), inside every corner, exactly on a vertex, and at the centre.
ResolvePositions(verts) ==
    {NearEdge(verts, i, s, d) : i \in 1..6, s \in {<<2500, -4>>, <<5000, -4>>},
                                d \in {Flt(-5), Flt(5), Flt(10), Flt(20)}}
    \cup {NearCorner(verts[i], f) : i \in 1..6, f \in {<<4000, -5>>, <<1000, -4>>}}
    \cup {verts[1], hexagon_center}

\* Ball velocities at the call.
ResolveVelocities == {<<Flt(a), Flt(b)>> : a, b \in {-300, 0, 300}}

NoBodies == <<>>

InitResolve ==
    /\ hexagon_angle \in ResolveAngles
    /\ vertices = get_hexagon_vertices(hexagon_center, Flt(hexagon_radius), hexagon_angle)
    /\ ball_position \in ResolvePositions(vertices)
    /\ ball_velocity \in ResolveVelocities
    /\ in_pos = ball_position
    /\ in_vel = ball_velocity
    /\ returns = <<>>
    /\ examined = <<>>
    /\ bodies = NoBodies
    /\ prev_bodies = NoBodies
    /\ paused = FALSE
    /\ speed_factor = 0
    /\ events = <<>>
    /\ running = TRUE
    /\ frames = 0
    /\ pc = "call"

\* One call of check_collision_and_resolve on the ball's lists.
Resolve ==
    /\ pc = "call"
    /\ \E r \in {check_collision_and_resolve(ball_position, ball_velocity, vertices,
                    hexagon_center, hexagon_angular_speed, restitution, friction)} :
           /\ ball_position' = r.pos
           /\ ball_velocity' = r.vel
           /\ returns' = <<r.collided>>
           /\ examined' = r.examined
    /\ in_pos' = ball_position
    /\ in_vel' = ball_velocity
    /\ frames' = frames + 1
    /\ pc' = "returned"
    /\ UNCHANGED <<hexagon_angle, vertices, bodies, prev_bodies, paused,
                   speed_factor, events, running>>

NextResolve == Resolve

SpecResolve == InitResolve /\ [][NextResolve]_vars

---------------------------------------------------------------------------
(* The bouncing-ball main loop *)

\* range(3): the resolver is tried at most this many times per frame.
ResolveTries == 3

\* Mutant of StopOnNoCollision: the retry loop ignores the returned value.
NeverStop(collided) == collided /\ ~collided

\* "if not check_collision_and_resolve(...): break"
StopOnNoCollision(collided) == ~collided

RECURSIVE ResolveLoop(_, _, _, _, _)
\* The retry loop from iteration k on (k = 0, 1, 2); rets collects the
\* values returned so far.
ResolveLoop(k, pos, vel, verts, rets) ==
    IF k >= ResolveTries
    THEN [pos |-> pos, vel |-> vel, rets |-> rets]
    ELSE With(check_collision_and_resolve(pos, vel, verts, hexagon_center,
                  hexagon_angular_speed, restitution, friction), LAMBDA r :
         IF StopOnNoCollision(r.collided)
         THEN [pos |-> r.pos, vel |-> r.vel, rets |-> Append(rets, r.collided)]
         ELSE ResolveLoop(k + 1, r.pos, r.vel, verts, Append(rets, r.collided)))

\* Gravity, then the position update with the new velocity.
Integrate(pos, vel, dt) ==
    With(<<vel[1], FAdd(vel[2], FMul(Flt(gravity), dt))>>, LAMBDA vel1 :
         [vel |-> vel1,
          pos |-> <<FAdd(pos[1], FMul(vel1[1], dt)), FAdd(pos[2], FMul(vel1[2], dt))>>])

\* One pass of the loop body for a frame of dt seconds: rotation, gravity,
\* position update, then the collision retries.
Frame(angle, pos, vel, dt) ==
    With3(FAdd(angle, FMul(hexagon_angular_speed, dt)),
          get_hexagon_vertices(hexagon_center, Flt(hexagon_radius),
                               FAdd(angle, FMul(hexagon_angular_speed, dt))),
          Integrate(pos, vel, dt),
    LAMBDA angle1, verts, moved :
    With(ResolveLoop(0, moved.pos, moved.vel, verts, <<>>), LAMBDA r :
         [angle |-> angle1, verts |-> verts, in_pos |-> moved.pos,
          in_vel |-> moved.vel, pos |-> r.pos, vel |-> r.vel, rets |-> r.rets]))

\* Seconds elapsed in a frame for which clock.tick(60) reports ms.
Seconds(ms) == FDiv(Flt(ms), Flt(1000))

\* Milliseconds clock.tick(60) reports for a frame at 60 frames per second.
FrameMs == {17}

\* Most frames a run executes.
MaxTicks == 75

\* The state after construction: hexagon_angle, ball_position, ball_velocity.
Constructed ==
    [angle |-> Zero,
     pos |-> <<Flt(WIDTH \div 2), Flt(HEIGHT \div 2 - 100)>>,
     vel |-> <<Flt(100), Zero>>]

InitBall ==
    /\ hexagon_angle = Constructed.angle
    /\ ball_position = Constructed.pos
    /\ ball_velocity = Constructed.vel
    /\ vertices = <<>>
    /\ in_pos = ball_position
    /\ in_vel = ball_velocity
    /\ returns = <<>>
    /\ examined = <<>>
    /\ bodies = NoBodies
    /\ prev_bodies = NoBodies
    /\ paused = FALSE
    /\ speed_factor = 0
    /\ events = <<>>
    /\ running = TRUE
    /\ frames = 0
    /\ pc = "loop"

\* One iteration of "while running": the events (a QUIT or none), then the
\* frame's physics.
Tick ==
    /\ pc = "loop"
    /\ running
    /\ frames < MaxTicks
    /\ \E ms \in FrameMs :
       \E f \in {Frame(hexagon_angle, ball_position, ball_velocity, Seconds(ms))} :
       \E evs \in {<<>>, <<"QUIT">>} :
              /\ events' = evs
              /\ running' = (evs = <<>>)
              /\ hexagon_angle' = f.angle
              /\ vertices' = f.verts
              /\ in_pos' = f.in_pos
              /\ in_vel' = f.in_vel
              /\ ball_position' = f.pos
              /\ ball_velocity' = f.vel
              /\ returns' = f.rets
    /\ frames' = frames + 1
    /\ UNCHANGED <<examined, bodies, prev_bodies, paused, speed_factor, pc>>

\* "pygame.quit(); sys.exit()" once the loop has ended.
Exit ==
    /\ pc = "loop"
    /\ ~running
    /\ pc' = "exited"
    /\ UNCHANGED <<hexagon_angle, ball_position, ball_velocity, vertices, in_pos,
                   in_vel, returns, examined, bodies, prev_bodies, paused,
                   speed_factor, events, running, frames>>

NextBall == Tick \/ Exit

SpecBall == InitBall /\ [][NextBall]_vars

\* C9: in every tick the resolver is invoked at least once and at most 3
\* times; every invocation but the last returned True, and an invocation
\* that returned False is the last one of its tick.
C9_RetryLoop ==
    (pc \in {"loop", "exited"} /\ frames > 0) =>
        /\ Len(returns) >= 1
        /\ Len(returns) <= 3
        /\ \A i \in 1..(Len(returns) - 1) : returns[i] = TRUE
        /\ Len(returns) < 3 => returns[Len(returns)] = FALSE

\* C9 witness: a tick in which a collision was resolved, the resolver was
\* invoked again and reported no further collision.
C9_Witness == pc = "loop" /\ frames > 0 /\ returns = <<TRUE, FALSE>>

---------------------------------------------------------------------------
(* Properties of one resolver call *)

\* What the resolver computes for edge i from the ball's state at entry.
InContact(i) ==
    Contact(in_pos, in_vel, vertices, hexagon_center, hexagon_angular_speed, i)

\* The edges the ball overlaps at entry, and those it is moving into.
Overlapped == {i \in 1..Len(vertices) : InContact(i).overlap}

Responding == {i \in Overlapped : FLt(InContact(i).rel_vel_normal, Zero)}

MinOf(S) == CHOOSE i \in S : \A j \in S : i <= j

\* Distance from the ball's centre, after the call, to the segment of edge i.
PostDist(i) == Closest(ball_position, EdgeOf(vertices, hexagon_center, i)).dist

\* Rounding tolerances: two units in the last place of a coordinate of a few
\* hundred pixels, and of a speed of a few thousand pixels per second.
DistTol == Dec(2, 1)

VelTol == Flt(2)

\* Inward speeds above this are well clear of the rounding noise.
ClearSpeed == Flt(20)

\* C1: a call in which every overlapped edge has rel_vel_normal >= 0 leaves
\* the ball's position and velocity unmodified and returns False.
C1_SeparatingContactUntouched ==
    (pc = "returned" /\ Responding = {})
        => /\ ball_position = in_pos
           /\ ball_velocity = in_vel
           /\ returns = <<FALSE>>

\* C1 witness: the ball overlapped a wall it was not moving into.
C1_Witness == pc = "returned" /\ Overlapped # {} /\ Responding = {}

\* C2 as claimed: after a call with a single overlapped edge, the ball's
\* centre is at least a radius (up to rounding) away from that edge.
C2_NoPenetrationLeft ==
    (pc = "returned" /\ Cardinality(Overlapped) = 1)
        => \A i \in Overlapped : ~FLt(PostDist(i), FSub(Flt(ball_radius), DistTol))

\* C2 amended: after a call with a single overlapped edge, the distance to
\* that edge has not decreased, and when the ball was moving into the edge
\* it is at least a radius (up to rounding) away from it; a separating
\* contact leaves the position, and so the penetration, as it was.
C2_PenetrationResolvedWhenInward ==
    (pc = "returned" /\ Cardinality(Overlapped) = 1)
        => \A i \in Overlapped :
              /\ ~FLt(PostDist(i), InContact(i).dist)
              /\ i \in Responding
                    => ~FLt(PostDist(i), FSub(Flt(ball_radius), DistTol))
              /\ i \notin Responding => ball_position = in_pos

\* C2 witness: a single overlapped edge the ball was moving into.
C2_Witness ==
    pc = "returned" /\ Cardinality(Overlapped) = 1 /\ Responding = Overlapped

\* C3: when a response is applied, the new velocity relative to the wall at
\* the contact point has normal component -restitution * old and tangential
\* component (1 - friction) * old (up to rounding); so it is separating and
\* slower along the normal than the inward speed before.
C3_RestitutionAndFriction ==
    (pc = "returned" /\ Responding # {})
        => LET c == InContact(MinOf(Responding))
               new_rel == RelVel(ball_velocity, c.wall_vel)
               new_n == Dot(new_rel, c.n)
               new_t == <<FSub(new_rel[1], FMul(new_n, c.n[1])),
                          FSub(new_rel[2], FMul(new_n, c.n[2]))>>
               old_t == <<FSub(c.rel_vel[1], FMul(c.rel_vel_normal, c.n[1])),
                          FSub(c.rel_vel[2], FMul(c.rel_vel_normal, c.n[2]))>>
               keep == FSub(Flt(1), friction)
           IN  /\ FLe(FAbs(FAdd(new_n, FMul(restitution, c.rel_vel_normal))), VelTol)
               /\ FLe(FAbs(FSub(new_t[1], FMul(keep, old_t[1]))), VelTol)
               /\ FLe(FAbs(FSub(new_t[2], FMul(keep, old_t[2]))), VelTol)
               /\ FLe(FNeg(VelTol), new_n)
               /\ FLt(c.rel_vel_normal, FNeg(ClearSpeed))
                     => FLt(Zero, new_n) /\ FLt(new_n, FNeg(c.rel_vel_normal))

\* C3 witness: a response to a ball that hit the wall obliquely and fast.
C3_Witness ==
    /\ pc = "returned"
    /\ Responding # {}
    /\ LET c == InContact(MinOf(Responding))
       IN  /\ FLt(c.rel_vel_normal, FNeg(ClearSpeed))
           /\ FLt(ClearSpeed, FAbs(FSub(c.rel_vel[1], FMul(c.rel_vel_normal, c.n[1]))))

\* C8: a call resolves at most one edge: it examines the edges in order up
\* to the first one the ball overlaps and is moving into, applies that
\* edge's response alone, and examines no edge after it.
C8_AtMostOneEdgeResolved ==
    pc = "returned" =>
        IF Responding = {}
        THEN /\ examined = [i \in 1..Len(vertices) |-> i]
             /\ returns = <<FALSE>>
        ELSE LET k == MinOf(Responding)
                 c == InContact(k)
             IN  /\ examined = [i \in 1..k |-> i]
                 /\ returns = <<TRUE>>
                 /\ ball_position = PushOut(in_pos, c.n, FSub(Flt(ball_radius), c.dist))
                 /\ ball_velocity = Bounce(c.rel_vel, c.rel_vel_normal, c.n,
                                           c.wall_vel, restitution, friction)

\* C8 witness: the ball was moving into two edges and one was resolved.
C8_Witness ==
    pc = "returned" /\ Cardinality(Responding) >= 2 /\ returns = <<TRUE>>

---------------------------------------------------------------------------
(* Solar system *)

\* Body.__init__ (color and radius are only drawn).
Body(name, mass, x, y, vx, vy) ==
    [name |-> name, mass |-> mass, x |-> x, y |-> y, vx |-> vx, vy |-> vy,
     ax |-> Zero, ay |-> Zero]

update_velocity(self, dt) ==
    [self EXCEPT !.vx = FAdd(@, FMul(self.ax, dt)), !.vy = FAdd(@, FMul(self.ay, dt))]

update_position(self, dt) ==
    [self EXCEPT !.x = FAdd(@, FMul(self.vx, dt)), !.y = FAdd(@, FMul(self.vy, dt))]

\* 4 * math.pi**2
G == FMul(Flt(4), FMul(Pi, Pi))

\* name, mass, orbital radius
planets_data ==
    << <<"Mercury", Dec(165, 9), Dec(387, 3)>>,
       <<"Venus", Dec(245, 8), Dec(723, 3)>>,
       <<"Earth", Dec(3, 6), Flt(1)>>,
       <<"Mars", Dec(33, 8), Dec(1524, 3)>>,
       <<"Jupiter", Dec(95, 5), Dec(52, 1)>>,
       <<"Saturn", Dec(275, 6), Dec(95, 1)>>,
       <<"Uranus", Dec(44, 6), Dec(192, 1)>>,
       <<"Neptune", Dec(515, 7), Dec(301, 1)>> >>

\* A planet on the x axis with the speed of a circular orbit.
Planet(d) ==
    Body(d[1], d[2], d[3], Zero, Zero, FDiv(FMul(Flt(2), Pi), FSqrt(d[3])))

planets == [k \in 1..Len(planets_data) |-> Planet(planets_data[k])]

RECURSIVE MomentumY(_, _, _)
\* sum(p.mass * p.vy for p in bodies if p != sun), from planet k on.
MomentumY(ps, k, total) ==
    IF k > Len(ps) THEN total
    ELSE MomentumY(ps, k + 1, FAdd(total, FMul(ps[k].mass, ps[k].vy)))

\* The Sun, its velocity adjusted to cancel the planets' momentum.
sun ==
    Body("Sun", One, Zero, Zero, Zero,
         FDiv(FNeg(MomentumY(planets, 1, Zero)), One))

InitialBodies == <<sun>> \o planets

\* Mutant of ZeroAcc: the accelerations are not reset.
KeepAcc(bs) == bs

\* "body.ax = 0.0; body.ay = 0.0" for every body.
ZeroAcc(bs) == [k \in 1..Len(bs) |-> [bs[k] EXCEPT !.ax = Zero, !.ay = Zero]]

\* Mutant of Factor: the body's own mass instead of the other body's.
FactorOwnMass(body_i, body_j, r) ==
    FDiv(FMul(G, body_i.mass), FMul(FMul(r, r), r))

\* factor = G * body_j.mass / r**3
Factor(body_i, body_j, r) ==
    FDiv(FMul(G, body_j.mass), FMul(FMul(r, r), r))

\* body_i after the pull of body_j is added to its acceleration; a pair at
\* zero separation is skipped.
Attract(body_i, body_j) ==
    With2(FSub(body_j.x, body_i.x), FSub(body_j.y, body_i.y), LAMBDA dx, dy :
    With(Hypot(dx, dy), LAMBDA r :
         IF r = Zero THEN body_i
         ELSE With(Factor(body_i, body_j, r), LAMBDA factor :
              [body_i EXCEPT !.ax = FAdd(@, FMul(factor, dx)),
                             !.ay = FAdd(@, FMul(factor, dy))])))

RECURSIVE InnerLoop(_, _, _)
\* "for j in range(len(bodies))" for body i, from j on.
InnerLoop(bs, i, j) ==
    IF j > Len(bs) THEN bs
    ELSE IF i = j THEN InnerLoop(bs, i, j + 1)
    ELSE InnerLoop([bs EXCEPT ![i] = Attract(bs[i], bs[j])], i, j + 1)

RECURSIVE OuterLoop(_, _)
\* "for i in range(len(bodies))", from i on.
OuterLoop(bs, i) ==
    IF i > Len(bs) THEN bs ELSE OuterLoop(InnerLoop(bs, i, 1), i + 1)

compute_accelerations(bs) == OuterLoop(ZeroAcc(bs), 1)

\* Time step in years, and the speed multiplier at start.
dt == Dec(1, 2)

InitialSpeedFactor == 5

\* Mutant of StepBody: the position is advanced with the old velocity.
StepBodyPositionFirst(body, sdt) == update_velocity(update_position(body, sdt), sdt)

\* "body.update_velocity(dt * speed_factor); body.update_position(...)"
StepBody(body, sdt) == update_position(update_velocity(body, sdt), sdt)

\* Accelerations, then every body stepped in turn.
MoveAll(bs, sdt) == [k \in 1..Len(bs) |-> StepBody(bs[k], sdt)]

StepBodies(bs, speed) ==
    MoveAll(compute_accelerations(bs), FMul(dt, Flt(speed)))

\* Mutant of Stepping: the pause flag is ignored.
SteppingAlways(is_paused) == TRUE

\* "if not paused"
Stepping(is_paused) == ~is_paused

EventKinds == {"QUIT", "K_SPACE", "K_q", "K_UP", "K_DOWN"}

\* The loop's flags after one event: QUIT and the q key end the loop, the
\* space key toggles the pause; no other key is handled.
HandleEvent(st, ev) ==
    [running |-> IF ev = "QUIT" \/ ev = "K_q" THEN FALSE ELSE st.running,
     paused |-> IF ev = "K_SPACE" THEN ~st.paused ELSE st.paused,
     speed_factor |-> st.speed_factor]

RECURSIVE HandleEvents(_, _, _)
\* "for event in pygame.event.get()", from event k on.
HandleEvents(st, evs, k) ==
    IF k > Len(evs) THEN st ELSE HandleEvents(HandleEvent(st, evs[k]), evs, k + 1)

\* Most events one frame receives, and most frames a run executes.
MaxEvents == 1

MaxFrames == 5

EventLists == UNION {[1..n -> EventKinds] : n \in 0..MaxEvents}

InitSolar ==
    /\ bodies = InitialBodies
    /\ prev_bodies = InitialBodies
    /\ paused = FALSE
    /\ speed_factor = InitialSpeedFactor
    /\ running = TRUE
    /\ events = <<>>
    /\ frames = 0
    /\ pc = "solar"
    /\ hexagon_angle = Zero
    /\ ball_position = <<Zero, Zero>>
    /\ ball_velocity = <<Zero, Zero>>
    /\ vertices = <<>>
    /\ in_pos = <<Zero, Zero>>
    /\ in_vel = <<Zero, Zero>>
    /\ returns = <<>>
    /\ examined = <<>>

\* One iteration of "while running": the events, then the physics unless
\* paused.
SolarFrame ==
    /\ pc = "solar"
    /\ running
    /\ frames < MaxFrames
    /\ \E stepped \in {StepBodies(bodies, speed_factor)} :
       \E evs \in EventLists :
       \E st \in {HandleEvents([running |-> running, paused |-> paused,
                                speed_factor |-> speed_factor], evs, 1)} :
              /\ events' = evs
              /\ running' = st.running
              /\ paused' = st.paused
              /\ speed_factor' = st.speed_factor
              /\ bodies' = IF Stepping(st.paused) THEN stepped ELSE bodies
    /\ prev_bodies' = bodies
    /\ frames' = frames + 1
    /\ UNCHANGED <<hexagon_angle, ball_position, ball_velocity, vertices, in_pos,
                   in_vel, returns, examined, pc>>

\* "pygame.quit(); sys.exit()" once the loop has ended.
SolarExit ==
    /\ pc = "solar"
    /\ ~running
    /\ pc' = "exited"
    /\ UNCHANGED <<hexagon_angle, ball_position, ball_velocity, vertices, in_pos,
                   in_vel, returns, examined, bodies, prev_bodies, paused,
                   speed_factor, events, running, frames>>

NextSolar == SolarFrame \/ SolarExit

SpecSolar == InitSolar /\ [][NextSolar]_vars

---------------------------------------------------------------------------
(* compute_accelerations as a function of the bodies it is given *)

AccelMasses == {One, Dec(3, 6), Dec(95, 5)}

AccelPoints == {<<Zero, Zero>>, <<One, Zero>>, <<Dec(3, 1), FNeg(Dec(4, 1))>>,
                <<FNeg(Dec(52, 1)), Flt(2)>>}

\* Accelerations left in the bodies by whatever ran before the call.
AccelLeftovers == {<<Zero, Zero>>, <<Dec(15, 1), FNeg(Flt(40))>>}

AccelBody(name, mass, p, a) ==
    [Body(name, mass, p[1], p[2], Zero, Zero) EXCEPT !.ax = a[1], !.ay = a[2]]

AccelPairs ==
    {<<AccelBody("A", m1, p1, a), AccelBody("B", m2, p2, a)>> :
        m1 \in AccelMasses, m2 \in AccelMasses, p1 \in AccelPoints,
        p2 \in AccelPoints, a \in AccelLeftovers}

AccelTriples ==
    {<<AccelBody("A", One, <<Zero, Zero>>, a), AccelBody("B", m, p, a),
       AccelBody("C", Dec(95, 5), <<FNeg(Dec(52, 1)), Flt(2)>>, a)>> :
        m \in AccelMasses, p \in AccelPoints, a \in AccelLeftovers}

\* Most calls of compute_accelerations in a row.
MaxCalls == 2

InitAccel ==
    /\ bodies \in AccelPairs \cup AccelTriples \cup {InitialBodies}
    /\ prev_bodies = bodies
    /\ paused = FALSE
    /\ speed_factor = InitialSpeedFactor
    /\ running = TRUE
    /\ events = <<>>
    /\ frames = 0
    /\ pc = "accel"
    /\ hexagon_angle = Zero
    /\ ball_position = <<Zero, Zero>>
    /\ ball_velocity = <<Zero, Zero>>
    /\ vertices = <<>>
    /\ in_pos = <<Zero, Zero>>
    /\ in_vel = <<Zero, Zero>>
    /\ returns = <<>>
    /\ examined = <<>>

\* One call compute_accelerations(bodies).
CallAccel ==
    /\ pc = "accel"
    /\ frames < MaxCalls
    /\ bodies' = compute_accelerations(bodies)
    /\ prev_bodies' = bodies
    /\ frames' = frames + 1
    /\ UNCHANGED <<hexagon_angle, ball_position, ball_velocity, vertices, in_pos,
                   in_vel, returns, examined, paused, speed_factor, events,
                   running, pc>>

NextAccel == CallAccel

SpecAccel == InitAccel /\ [][NextAccel]_vars

---------------------------------------------------------------------------
(* Properties of the solar system *)

\* The pull of body j on body i at the positions of bs, <<0, 0>> at zero
\* separation.
Pull(bs, i, j) ==
    LET dx == FSub(bs[j].x, bs[i].x)
        dy == FSub(bs[j].y, bs[i].y)
        r == FSqrt(FAdd(FMul(dx, dx), FMul(dy, dy)))
        f == FDiv(FMul(G, bs[j].mass), FMul(FMul(r, r), r))
    IN IF r = Zero THEN <<Zero, Zero>> ELSE <<FMul(f, dx), FMul(f, dy)>>

RECURSIVE PullSum(_, _, _, _)
\* The pulls of bodies j.. on body i added to acc in index order.
PullSum(bs, i, j, acc) ==
    IF j > Len(bs) THEN acc
    ELSE IF j = i \/ Pull(bs, i, j) = <<Zero, Zero>> THEN PullSum(bs, i, j + 1, acc)
    ELSE PullSum(bs, i, j + 1,
                 <<FAdd(acc[1], Pull(bs, i, j)[1]), FAdd(acc[2], Pull(bs, i, j)[2])>>)

AccelAt(bs, i) == PullSum(bs, i, 1, <<Zero, Zero>>)

\* C5: after a call of compute_accelerations every body's acceleration is the
\* sum of the pulls of the other bodies at the current positions, whatever
\* acceleration it held before, and a second call on unchanged positions
\* leaves the same values.
C5_AccelerationsOverwritten ==
    (pc = "accel" /\ frames > 0) =>
        /\ \A i \in 1..Len(bodies) : <<bodies[i].ax, bodies[i].ay>> = AccelAt(bodies, i)
        /\ \A i \in 1..Len(bodies) :
              [bodies[i] EXCEPT !.ax = Zero, !.ay = Zero]
                  = [prev_bodies[i] EXCEPT !.ax = Zero, !.ay = Zero]
        /\ frames > 1 => bodies = prev_bodies

\* A call has returned for bodies that entered it with accelerations left
\* over, and the result is neither zero nor what was left over.
C5_Witness ==
    /\ pc = "accel"
    /\ frames = 1
    /\ \E i \in 1..Len(bodies) :
          /\ prev_bodies[i].ax # Zero
          /\ bodies[i].ax # Zero
          /\ bodies[i].ax # prev_bodies[i].ax

RelTol == Dec(5, 3)

Near(a, b) == FLe(FAbs(FSub(a, b)), FMul(RelTol, FMax(FAbs(a), FAbs(b))))

TwoApart ==
    /\ pc = "accel"
    /\ frames > 0
    /\ Len(bodies) = 2
    /\ <<bodies[1].x, bodies[1].y>> # <<bodies[2].x, bodies[2].y>>

\* C7: for two bodies at distinct positions, mass times acceleration of the
\* one is the opposite of mass times acceleration of the other (up to
\* rounding), and the first body's acceleration points toward the second.
C7_NewtonThirdLaw ==
    TwoApart =>
        LET b1 == bodies[1]
            b2 == bodies[2]
            dx == FSub(b2.x, b1.x)
            dy == FSub(b2.y, b1.y)
        IN /\ Near(FMul(b1.mass, b1.ax), FNeg(FMul(b2.mass, b2.ax)))
           /\ Near(FMul(b1.mass, b1.ay), FNeg(FMul(b2.mass, b2.ay)))
           /\ Sgn(b1.ax[1]) = Sgn(dx[1])
           /\ Sgn(b1.ay[1]) = Sgn(dy[1])
           /\ Near(FMul(b1.ax, dy), FMul(b1.ay, dx))
           /\ <<b1.ax, b1.ay>> # <<Zero, Zero>>

\* Two bodies of different mass, apart in both coordinates.
C7_Witness ==
    /\ TwoApart
    /\ bodies[1].mass # bodies[2].mass
    /\ bodies[1].x # bodies[2].x
    /\ bodies[1].y # bodies[2].y

EvenSpaces(evs) == Cardinality({k \in 1..Len(evs) : evs[k] = "K_SPACE"}) % 2 = 0

\* C6: a frame that ends paused leaves every body as it was, and the pause
\* flag of a frame differs from the previous one exactly when the frame got
\* an odd number of pause inputs.
C6_PausedFreezes ==
    [][(pc = "solar" /\ frames' = frames + 1) =>
          /\ paused' => bodies' = bodies
          /\ ~paused' => bodies' # bodies
          /\ (paused' = paused) <=> EvenSpaces(events')]_vars

\* A frame ran paused from start to end after the bodies had moved.
C6_Witness ==
    /\ pc = "solar"
    /\ frames > 1
    /\ paused
    /\ events = <<>>
    /\ bodies = prev_bodies
    /\ bodies # InitialBodies

\* C4: an UP input raises the speed factor and a DOWN input lowers it.
C4_SpeedFactorAdjustable ==
    [][(pc = "solar" /\ frames' = frames + 1) =>
          /\ events' = <<"K_UP">> => speed_factor' > speed_factor
          /\ events' = <<"K_DOWN">> => speed_factor' < speed_factor]_vars

\* C10: an unpaused frame computes the accelerations from the positions at
\* its start, then gives every body v' = v + a * sdt and p' = p + v' * sdt
\* with sdt = dt * speed_factor.
C10_SemiImplicitEuler ==
    (pc = "solar" /\ frames > 0 /\ ~paused) =>
        LET sdt == FMul(dt, Flt(speed_factor))
        IN \A i \in 1..Len(bodies) :
              LET a == AccelAt(prev_bodies, i)
                  b == bodies[i]
                  p == prev_bodies[i]
              IN /\ <<b.ax, b.ay>> = a
                 /\ b.vx = FAdd(p.vx, FMul(a[1], sdt))
                 /\ b.vy = FAdd(p.vy, FMul(a[2], sdt))
                 /\ b.x = FAdd(p.x, FMul(b.vx, sdt))
                 /\ b.y = FAdd(p.y, FMul(b.vy, sdt))

\* A second unpaused frame: the bodies entered it with the accelerations and
\* velocities of an earlier step.
C10_Witness ==
    /\ pc = "solar"
    /\ frames > 1
    /\ ~paused
    /\ prev_bodies # InitialBodies
    /\ \E i \in 1..Len(bodies) :
          /\ prev_bodies[i].ax # Zero
          /\ bodies[i].ax # prev_bodies[i].ax
          /\ bodies[i].vx # prev_bodies[i].vx
          /\ bodies[i].x # prev_bodies[i].x

====
